---------------------------- MODULE Spec2Model ----------------------------
(***************************************************************************)
(* Model of the interest filter of ai-news-bot                             *)
(* (src/src/filters/interest_filter.py): the InterestFilter object, its    *)
(* regex matchers, score_post, filter_posts and get_relevant_posts; and of *)
(* the scraper's fetch_recent_posts (src/src/scrapers/web_scraper.py).     *)
(*                                                                         *)
(* A text is a sequence of one-character strings.  Letters are word         *)
(* characters (\w), the blank is not.  "A" is the upper case of "a".       *)
(* Scores are integers: the configuration's numbers are taken whole, so    *)
(* that +, * and the comparisons of the code are exact.                    *)
(***************************************************************************)
EXTENDS Integers, Sequences, FiniteSets, TLC

VARIABLES self, op, arg, after, ret, earlier

vars == <<self, op, arg, after, ret, earlier>>

---------------------------------------------------------------------------
(* Bounds of the model.                                                    *)

\* Words in one document, over all its text fields.
MaxWords == 3

\* Documents in one input list of filter_posts / get_relevant_posts.
MaxPosts == 2

---------------------------------------------------------------------------
(* Texts and the regular expressions of _compile_patterns.                 *)

SP == " "

\* str.lower() on one character, as re.IGNORECASE compares.
Lower(c) == IF c = "A" THEN "a" ELSE IF c = "B" THEN "b" ELSE c

\* \w of the re module: letters are word characters, the blank is not.
IsWordChar(c) == c # SP

\* \b between text[p] and text[p+1] (p = 0: the start, p = Len: the end):
\* exactly one side is a word character; outside the text counts as none.
WordBoundary(text, p) ==
    LET before == p >= 1 /\ IsWordChar(text[p])
        next   == p + 1 <= Len(text) /\ IsWordChar(text[p + 1])
    IN  before # next

\* The keyword matched at position i without the \b on either side.
KeywordMatchesAtAnywhere(kw, text, i) ==
    /\ i + Len(kw) - 1 <= Len(text)
    /\ \A j \in 1..Len(kw) : Lower(text[i + j - 1]) = Lower(kw[j])

\* \b + re.escape(kw) + \b matched at position i (1-based) of text, with
\* re.IGNORECASE: the keyword's characters literally, a \b on either side.
KeywordMatchesAt(kw, text, i) ==
    /\ i + Len(kw) - 1 <= Len(text)
    /\ \A j \in 1..Len(kw) : Lower(text[i + j - 1]) = Lower(kw[j])
    /\ WordBoundary(text, i - 1)
    /\ WordBoundary(text, i - 1 + Len(kw))

\* The alternation '|'.join(...) tried at position i: the length matched by
\* the first alternative (in keyword order) that matches there, -1 if none.
\* An empty keyword list joins to the empty pattern, which matches the
\* empty string at every position.  With nonEmpty, alternatives matching
\* the empty string are passed over (the scanner's rule after an empty
\* match at the same position).
RECURSIVE AltMatchLen(_, _, _, _, _)
AltMatchLen(kws, k, text, i, nonEmpty) ==
    IF k > Len(kws) THEN -1
    ELSE IF KeywordMatchesAt(kws[k], text, i) /\ (~nonEmpty \/ Len(kws[k]) > 0)
         THEN Len(kws[k])
         ELSE AltMatchLen(kws, k + 1, text, i, nonEmpty)

PatternMatchLen(kws, text, i, nonEmpty) ==
    IF kws = <<>>
    THEN (IF nonEmpty THEN -1 ELSE 0)
    ELSE AltMatchLen(kws, 1, text, i, nonEmpty)

\* pattern.search(text): is there a match anywhere in text.
Search(kws, text) ==
    \E i \in 1..(Len(text) + 1) : PatternMatchLen(kws, text, i, FALSE) >= 0

\* pattern.findall(text): the matched substrings (spelled as in the text),
\* leftmost first, non-overlapping: after a match the scan resumes at its
\* end; after an empty match the next match may not be empty at the same
\* position.
RECURSIVE FindallFrom(_, _, _, _)
FindallFrom(kws, text, pos, mustAdvance) ==
    IF pos > Len(text) + 1 THEN <<>>
    ELSE LET n == PatternMatchLen(kws, text, pos, mustAdvance)
         IN  IF n < 0 THEN FindallFrom(kws, text, pos + 1, FALSE)
             ELSE IF n = 0
                  THEN <<(<<>>)>> \o FindallFrom(kws, text, pos, TRUE)
                  ELSE <<SubSeq(text, pos, pos + n - 1)>>
                       \o FindallFrom(kws, text, pos + n, FALSE)

Findall(kws, text) == FindallFrom(kws, text, 1, FALSE)

\* set(xs) of a list
ToSet(xs) == {xs[i] : i \in 1..Len(xs)}

\* list(set(xs)): the distinct elements in an order fixed for the process.
RECURSIVE SetToList(_)
SetToList(S) ==
    IF S = {} THEN <<>>
    ELSE LET x == CHOOSE y \in S : TRUE
         IN  <<x>> \o SetToList(S \ {x})

\* sep.join(parts)
RECURSIVE Join(_, _)
Join(parts, sep) ==
    IF parts = <<>> THEN <<>>
    ELSE IF Len(parts) = 1 THEN parts[1]
    ELSE parts[1] \o sep \o Join(Tail(parts), sep)

\* dict.get(key, default)
Get(d, key, default) == IF key \in DOMAIN d THEN d[key] ELSE default

---------------------------------------------------------------------------
(* InterestFilter.__init__ and _compile_patterns.                          *)

\* The compiled pattern of a topic is determined by its keyword list (in
\* order): the alternation of \b keyword \b, case-insensitive.
CompileTopic(topic) == topic @@ [pattern |-> topic.keywords]

CompilePatterns(topics) == [i \in DOMAIN topics |-> CompileTopic(topics[i])]

\* The object after construction from the parsed configuration file.
Construct(config) ==
    [interests      |-> CompilePatterns(config.interests),
     exclude_topics |-> CompilePatterns(Get(config, "exclude_topics", <<>>)),
     scoring        |-> config.scoring]

---------------------------------------------------------------------------
(* score_post.                                                             *)

PostTitle(post)        == Get(post, "title", <<>>)

\* The summary taken from the scraper's 'summary' when there is no ai_summary.
PostSummaryOrScraped(post) ==
    Get(post, "ai_summary", Get(post, "summary", <<>>))

PostSummary(post)      == Get(post, "ai_summary", <<>>)
PostKeyPoints(post)    == Join(Get(post, "key_points", <<>>), <<SP>>)
PostSignificance(post) == Get(post, "significance", <<>>)

\* The exclusion patterns searched in the title alone.
ExclusionTextTitleOnly(post) == PostTitle(post)

\* The exclusion patterns searched in every text field of the post.
ExclusionTextAllFields(post) ==
    PostTitle(post) \o <<SP>> \o PostSummary(post) \o <<SP>>
      \o PostKeyPoints(post) \o <<SP>> \o PostSignificance(post)

\* The text the exclusion patterns are searched in.
ExclusionText(post) == PostTitle(post) \o <<SP>> \o PostSummary(post)

\* The text of the third interest check.
OtherText(post) == PostKeyPoints(post) \o <<SP>> \o PostSignificance(post)

EmptyMatches ==
    [matched_topics   |-> <<>>,
     matched_keywords |-> <<>>,
     exclude_matches  |-> <<>>,
     score_breakdown  |-> <<>>]

\* The loop over self.exclude_topics adding exclude_penalty once for every
\* keyword of the topic that is found.
RECURSIVE ExclusionPassPerKeyword(_, _, _, _)
ExclusionPassPerKeyword(cfg, post, k, acc) ==
    IF k > Len(cfg.exclude_topics) THEN acc
    ELSE LET exclude == cfg.exclude_topics[k]
             found   == { i \in DOMAIN exclude.keywords :
                            Search(<<exclude.keywords[i]>>,
                                   ExclusionText(post)) }
         IN  IF Search(exclude.pattern, ExclusionText(post))
             THEN ExclusionPassPerKeyword(cfg, post, k + 1,
                    [score   |-> acc.score + Cardinality(found)
                                               * cfg.scoring.exclude_penalty,
                     matches |-> [acc.matches EXCEPT !.exclude_matches =
                                     Append(@, exclude.topic)]])
             ELSE ExclusionPassPerKeyword(cfg, post, k + 1, acc)

\* The loop over self.exclude_topics, from topic k on: every topic whose
\* pattern is found in title + ' ' + summary is appended to exclude_matches
\* and adds exclude_penalty to the score.
RECURSIVE ExclusionPass(_, _, _, _)
ExclusionPass(cfg, post, k, acc) ==
    IF k > Len(cfg.exclude_topics) THEN acc
    ELSE LET exclude == cfg.exclude_topics[k]
         IN  IF Search(exclude.pattern, ExclusionText(post))
             THEN ExclusionPass(cfg, post, k + 1,
                    [score   |-> acc.score + cfg.scoring.exclude_penalty,
                     matches |-> [acc.matches EXCEPT !.exclude_matches =
                                     Append(@, exclude.topic)]])
             ELSE ExclusionPass(cfg, post, k + 1, acc)

\* _get_priority_weight with the weights of high and medium exchanged.
GetPriorityWeightSwapped(cfg, priority) ==
    IF priority = "high" THEN cfg.scoring.medium_priority_weight
    ELSE IF priority = "medium" THEN cfg.scoring.high_priority_weight
    ELSE IF priority = "low" THEN cfg.scoring.low_priority_weight
    ELSE 1

\* _get_priority_weight giving a priority it does not know no weight.
GetPriorityWeightNoDefault(cfg, priority) ==
    IF priority = "high" THEN cfg.scoring.high_priority_weight
    ELSE IF priority = "medium" THEN cfg.scoring.medium_priority_weight
    ELSE IF priority = "low" THEN cfg.scoring.low_priority_weight
    ELSE 0

\* _get_priority_weight giving a priority it does not know the weight of
\* low.
GetPriorityWeightDefaultLow(cfg, priority) ==
    IF priority = "high" THEN cfg.scoring.high_priority_weight
    ELSE IF priority = "medium" THEN cfg.scoring.medium_priority_weight
    ELSE cfg.scoring.low_priority_weight

\* _get_priority_weight: mapping.get(priority, 1)
GetPriorityWeight(cfg, priority) ==
    IF priority = "high" THEN cfg.scoring.high_priority_weight
    ELSE IF priority = "medium" THEN cfg.scoring.medium_priority_weight
    ELSE IF priority = "low" THEN cfg.scoring.low_priority_weight
    ELSE 1

\* One of the three checks of a topic: findall in one text; if there are
\* matches, len(set(matches)) * weight * multiplier.
FieldScore(cfg, interest, text, multiplier) ==
    LET found == Findall(interest.pattern, text)
    IN  IF found # <<>>
        THEN Cardinality(ToSet(found))
               * GetPriorityWeight(cfg, interest.priority) * multiplier
        ELSE 0

\* The topic's score with the title counted like the other fields.
TopicScoreTitleUnweighted(cfg, interest, post) ==
    FieldScore(cfg, interest, PostTitle(post), 1)
  + FieldScore(cfg, interest, PostSummary(post),
               cfg.scoring.summary_match_multiplier)
  + FieldScore(cfg, interest, OtherText(post), 1)

\* The body of the loop over self.interests for one topic.
TopicScore(cfg, interest, post) ==
    FieldScore(cfg, interest, PostTitle(post),
               cfg.scoring.title_match_multiplier)
  + FieldScore(cfg, interest, PostSummary(post),
               cfg.scoring.summary_match_multiplier)
  + FieldScore(cfg, interest, OtherText(post), 1)

TopicMatches(interest, post) ==
    Findall(interest.pattern, PostTitle(post))
 \o Findall(interest.pattern, PostSummary(post))
 \o Findall(interest.pattern, OtherText(post))

\* The loop over self.interests recording a topic only when its score is
\* above zero.
RECURSIVE InterestPassPositiveOnly(_, _, _, _)
InterestPassPositiveOnly(cfg, post, k, acc) ==
    IF k > Len(cfg.interests) THEN acc
    ELSE LET interest      == cfg.interests[k]
             topic_score   == TopicScore(cfg, interest, post)
             topic_matches == TopicMatches(interest, post)
         IN  IF topic_score > 0
             THEN InterestPassPositiveOnly(cfg, post, k + 1,
                    [score   |-> acc.score + topic_score,
                     matches |->
                       [acc.matches EXCEPT
                          !.matched_topics = Append(@,
                              [topic    |-> interest.topic,
                               priority |-> interest.priority,
                               score    |-> topic_score]),
                          !.matched_keywords =
                              @ \o SetToList(ToSet(topic_matches)),
                          !.score_breakdown =
                              (interest.topic :> topic_score) @@ @]])
             ELSE InterestPassPositiveOnly(cfg, post, k + 1, acc)

\* The loop over self.interests, from topic k on.
RECURSIVE InterestPass(_, _, _, _)
InterestPass(cfg, post, k, acc) ==
    IF k > Len(cfg.interests) THEN acc
    ELSE LET interest      == cfg.interests[k]
             topic_score   == TopicScore(cfg, interest, post)
             topic_matches == TopicMatches(interest, post)
         IN  IF topic_matches # <<>>
             THEN InterestPass(cfg, post, k + 1,
                    [score   |-> acc.score + topic_score,
                     matches |->
                       [acc.matches EXCEPT
                          !.matched_topics = Append(@,
                              [topic    |-> interest.topic,
                               priority |-> interest.priority,
                               score    |-> topic_score]),
                          !.matched_keywords =
                              @ \o SetToList(ToSet(topic_matches)),
                          !.score_breakdown =
                              (interest.topic :> topic_score) @@ @]])
             ELSE InterestPass(cfg, post, k + 1, acc)
\* score_post filling a matches record shared between calls: what the
\* caller kept of an earlier call is still in it.
ScorePostShared(cfg, post) ==
    LET shared == IF earlier = <<>> THEN EmptyMatches ELSE earlier[1].matches
        excl == ExclusionPass(cfg, post, 1,
                    [score |-> 0,
                     matches |-> [shared EXCEPT !.score_breakdown = <<>>]])
    IN  IF excl.score <= cfg.scoring.exclude_penalty
        THEN [score   |-> excl.score,
              matches |-> [excl.matches EXCEPT !.score_breakdown =
                              ("exclusion_penalty" :> excl.score) @@ @]]
        ELSE InterestPass(cfg, post, 1, excl)

\* score_post without the early return: the interest pass always runs.
ScorePostNoVeto(cfg, post) ==
    InterestPass(cfg, post, 1,
                 ExclusionPass(cfg, post, 1,
                               [score |-> 0, matches |-> EmptyMatches]))

\* score_post returning early only below the penalty (< for <=).
ScorePostStrictExit(cfg, post) ==
    LET excl == ExclusionPass(cfg, post, 1,
                              [score |-> 0, matches |-> EmptyMatches])
    IN  IF excl.score < cfg.scoring.exclude_penalty
        THEN [score   |-> excl.score,
              matches |-> [excl.matches EXCEPT !.score_breakdown =
                              ("exclusion_penalty" :> excl.score) @@ @]]
        ELSE InterestPass(cfg, post, 1, excl)

\* score_post returning early without an entry in score_breakdown.
ScorePostPenaltyUnrecorded(cfg, post) ==
    LET excl == ExclusionPass(cfg, post, 1,
                              [score |-> 0, matches |-> EmptyMatches])
    IN  IF excl.score <= cfg.scoring.exclude_penalty
        THEN excl
        ELSE InterestPass(cfg, post, 1, excl)

\* score_post(post): the pair (score, matches).
ScorePost(cfg, post) ==
    LET excl == ExclusionPass(cfg, post, 1,
                              [score |-> 0, matches |-> EmptyMatches])
    IN  IF excl.score <= cfg.scoring.exclude_penalty
        THEN [score   |-> excl.score,
              matches |-> [excl.matches EXCEPT !.score_breakdown =
                              ("exclusion_penalty" :> excl.score) @@ @]]
        ELSE InterestPass(cfg, post, 1, excl)

---------------------------------------------------------------------------
(* filter_posts and get_relevant_posts.                                    *)

AnnotationKeys == {"relevance_score", "relevance_matches", "is_relevant"}
\* The annotated record with is_relevant decided by > for >=.
EnhancedPostStrict(cfg, post) ==
    LET r == ScorePost(cfg, post)
    IN  [relevance_score   |-> r.score,
         relevance_matches |-> r.matches,
         is_relevant       |-> r.score > cfg.scoring.minimum_score_threshold]
        @@ post

\* {**post, 'relevance_score': ..., 'relevance_matches': ..., 'is_relevant': ...}
EnhancedPost(cfg, post) ==
    LET r == ScorePost(cfg, post)
    IN  [relevance_score   |-> r.score,
         relevance_matches |-> r.matches,
         is_relevant       |-> r.score >= cfg.scoring.minimum_score_threshold]
        @@ post
\* The insertion of an unstable sort: an element goes before its equals.
RECURSIVE InsertBeforeEquals(_, _)
InsertBeforeEquals(sorted, p) ==
    IF sorted = <<>> THEN <<p>>
    ELSE IF Head(sorted).relevance_score > p.relevance_score
         THEN <<Head(sorted)>> \o InsertBeforeEquals(Tail(sorted), p)
         ELSE <<p>> \o sorted

\* list.sort(key=relevance_score, reverse=True) is stable: an element goes
\* behind every element whose score is at least its own.
RECURSIVE InsertByScore(_, _)
InsertByScore(sorted, p) ==
    IF sorted = <<>> THEN <<p>>
    ELSE IF Head(sorted).relevance_score >= p.relevance_score
         THEN <<Head(sorted)>> \o InsertByScore(Tail(sorted), p)
         ELSE <<p>> \o sorted

RECURSIVE SortByScore(_, _)
SortByScore(todo, sorted) ==
    IF todo = <<>> THEN sorted
    ELSE SortByScore(Tail(todo), InsertByScore(sorted, Head(todo)))

NotNegative(p) == p.relevance_score >= 0

\* filter_posts leaving out the posts of negative score.
FilterPostsDropNegative(cfg, posts) ==
    SelectSeq(SortByScore([i \in 1..Len(posts) |->
                              EnhancedPost(cfg, posts[i])], <<>>),
              NotNegative)

\* filter_posts leaving the annotated posts in the order of the input.
FilterPostsUnsorted(cfg, posts) ==
    [i \in 1..Len(posts) |-> EnhancedPost(cfg, posts[i])]

FilterPosts(cfg, posts) ==
    SortByScore([i \in 1..Len(posts) |-> EnhancedPost(cfg, posts[i])], <<>>)

IsRelevant(p) == p.is_relevant

IsPositive(p) == p.relevance_score > 0

\* get_relevant_posts keeping the posts of positive score.
GetRelevantPostsPositive(cfg, posts) ==
    SelectSeq(FilterPosts(cfg, posts), IsPositive)

GetRelevantPosts(cfg, posts) == SelectSeq(FilterPosts(cfg, posts), IsRelevant)

\* filter_posts annotating the caller's posts and sorting the caller's list.
InputAfterFilterInPlace(cfg, posts) == FilterPosts(cfg, posts)

\* What the caller's list holds after filter_posts / get_relevant_posts ran:
\* the loop only reads each post (the annotated record is a new dict) and
\* sort() is applied to the new list filtered_posts.
InputAfterFilter(cfg, posts) == posts

\* What the caller's post holds after score_post ran: it is only read.
InputAfterScore(cfg, post) == post

---------------------------------------------------------------------------
(* Configurations the filter is constructed from.                          *)

KwA == <<"a">>
KwB == <<"b">>

\* The 'interests' list of the configuration file.
InterestLists ==
    { << [topic |-> "robotics", priority |-> "high",   keywords |-> <<KwA>>],
         [topic |-> "waymo",    priority |-> "medium", keywords |-> <<KwB>>] >>,
      << [topic |-> "robotics", priority |-> "high",   keywords |-> <<KwA, KwB>>] >> }

\* The 'exclude_topics' list: none, one topic, two topics of which the
\* second has a keyword of two words.
ExcludeLists ==
    { <<>>,
      << [topic |-> "social", keywords |-> <<KwB>>] >>,
      << [topic |-> "social", keywords |-> <<KwB>>],
         [topic |-> "crypto", keywords |-> << <<"a", SP, "b">> >>] >> }

Penalties == {-5, 0, 5}

Thresholds == {-5, 3}

ScoringOf(penalty, threshold) ==
    [exclude_penalty          |-> penalty,
     title_match_multiplier   |-> 2,
     summary_match_multiplier |-> 1,
     high_priority_weight     |-> 3,
     medium_priority_weight   |-> 2,
     low_priority_weight      |-> 1,
     minimum_score_threshold  |-> threshold]

ConfigSet ==
    { [interests |-> i, exclude_topics |-> e, scoring |-> ScoringOf(p, t)] :
        i \in InterestLists, e \in ExcludeLists,
        p \in Penalties, t \in Thresholds }

---------------------------------------------------------------------------
(* Documents handed to the filter.                                         *)

Vocabulary == {<<"a">>, <<"A">>, <<"b">>}

\* An enriched post (GeminiSummarizer.summarize_post): title of the words
\* t, summary of the words s, one key point per word of k, significance of
\* the words g.
MkPost(t, s, k, g) ==
    [title        |-> Join(t, <<SP>>),
     ai_summary   |-> Join(s, <<SP>>),
     key_points   |-> k,
     significance |-> Join(g, <<SP>>),
     link         |-> "L"]

\* A raw post of the scraper (its title, link, date and summary), passed
\* through when summarization failed.
RawPost(t) ==
    [title |-> Join(t, <<SP>>), link |-> "L", published |-> "P",
     summary |-> Join(t, <<SP>>)]

WordSeqs(n) == [1..n -> Vocabulary]

\* How n words at most are spread over title, summary, key points and
\* significance.
Splits(n) ==
    { q \in (0..n) \X (0..n) \X (0..n) \X (0..n) :
        q[1] + q[2] + q[3] + q[4] <= n }

\* The enriched posts of at most n words in all.
PostsUpTo(n) ==
    UNION { { MkPost(t, s, k, g) :
                t \in WordSeqs(q[1]), s \in WordSeqs(q[2]),
                k \in WordSeqs(q[3]), g \in WordSeqs(q[4]) } :
            q \in Splits(n) }

RawPosts == { RawPost(t) : t \in WordSeqs(0) \cup WordSeqs(1) }

\* The posts score_post is called on.
Docs == PostsUpTo(MaxWords) \cup RawPosts

\* The posts the input lists are made of: one word at most.
ListDocs == PostsUpTo(1) \cup RawPosts

\* The input lists of filter_posts and get_relevant_posts.
PostLists == UNION { [1..n -> ListDocs] : n \in 0..MaxPosts }

---------------------------------------------------------------------------
(* The state machine: the object, the call in progress and its result.     *)
(*   self    the InterestFilter object                                     *)
(*   op      the method that has just run ("idle": none, the caller is     *)
(*           between calls)                                                *)
(*   arg     the posts the method was called with, as they were            *)
(*   after   the same posts as the caller finds them after the call        *)
(*   ret     the result: <<[score, matches]>> of score_post, the list of   *)
(*           annotated posts of filter_posts / get_relevant_posts          *)
(*   earlier a result of an earlier call the caller has kept: at most one  *)
(*           [post, score, matches]                                        *)

Init ==
    /\ self \in { Construct(c) : c \in ConfigSet }
    /\ op = "idle"
    /\ arg = <<>>
    /\ after = <<>>
    /\ ret = <<>>
    /\ earlier = <<>>

ScorePostCall(S) ==
    /\ op = "idle"
    /\ \E post \in S :
         /\ arg' = <<post>>
         /\ after' = <<InputAfterScore(self, post)>>
         /\ ret' = <<ScorePost(self, post)>>
    /\ op' = "score_post"
    /\ UNCHANGED <<self, earlier>>

FilterPostsCall(L) ==
    /\ op = "idle"
    /\ \E posts \in L :
         /\ arg' = posts
         /\ after' = InputAfterFilter(self, posts)
         /\ ret' = FilterPosts(self, posts)
    /\ op' = "filter_posts"
    /\ UNCHANGED <<self, earlier>>

GetRelevantPostsCall(L) ==
    /\ op = "idle"
    /\ \E posts \in L :
         /\ arg' = posts
         /\ after' = InputAfterFilter(self, posts)
         /\ ret' = GetRelevantPosts(self, posts)
    /\ op' = "get_relevant_posts"
    /\ UNCHANGED <<self, earlier>>

\* The call is over: the caller drops the result.
Return ==
    /\ op # "idle"
    /\ op' = "idle"
    /\ arg' = <<>>
    /\ after' = <<>>
    /\ ret' = <<>>
    /\ UNCHANGED <<self, earlier>>

Next ==
    \/ ScorePostCall(Docs)
    \/ FilterPostsCall(PostLists)
    \/ GetRelevantPostsCall(PostLists)
    \/ Return

Spec == Init /\ [][Next]_vars

\* The call is over: the caller keeps the score and the matches of one of
\* the posts it had scored (score_post) or annotated (filter_posts).
Keep ==
    /\ op \in {"score_post", "filter_posts"}
    /\ \E i \in 1..Len(ret) :
         earlier' =
           IF op = "score_post"
           THEN << [post |-> arg[1], score |-> ret[1].score,
                    matches |-> ret[1].matches] >>
           ELSE << [post    |-> [k \in (DOMAIN ret[i]) \ AnnotationKeys |->
                                    ret[i][k]],
                    score   |-> ret[i].relevance_score,
                    matches |-> ret[i].relevance_matches] >>
    /\ op' = "idle"
    /\ arg' = <<>>
    /\ after' = <<>>
    /\ ret' = <<>>
    /\ UNCHANGED self

\* Calls that follow one another on one object, the caller remembering a
\* result from one call to the next.  The configurations are those of a
\* negative penalty and a positive threshold.
InitSeries ==
    /\ Init
    /\ self.scoring.exclude_penalty < 0
    /\ self.scoring.minimum_score_threshold > 0

NextSeries ==
    \/ ScorePostCall(ListDocs)
    \/ FilterPostsCall(PostLists)
    \/ Keep
    \/ Return

SpecSeries == InitSeries /\ [][NextSeries]_vars

---------------------------------------------------------------------------
(* Vocabulary of the claims.                                               *)

Fresh == [score |-> 0, matches |-> EmptyMatches]

\* The exclusion topics (by position) the exclusion pass finds in a post.
ExcludedBy(cfg, post) ==
    { k \in DOMAIN cfg.exclude_topics :
        Search(cfg.exclude_topics[k].pattern, ExclusionText(post)) }

\* Some exclusion topic has a keyword in the title or in the summary.
TitleOrSummaryExcluded(cfg, post) ==
    \E k \in DOMAIN cfg.exclude_topics :
        \/ Search(cfg.exclude_topics[k].pattern, PostTitle(post))
        \/ Search(cfg.exclude_topics[k].pattern, PostSummary(post))

\* Some interest topic has a keyword somewhere in the post.
HasInterestKeyword(cfg, post) ==
    \E k \in DOMAIN cfg.interests : TopicMatches(cfg.interests[k], post) # <<>>

\* What the interest pass alone gives a post.
InterestOnly(cfg, post) == InterestPass(cfg, post, 1, Fresh)

\* score_post returned before the interest pass.
EarlyExit(r) == "exclusion_penalty" \in DOMAIN r.matches.score_breakdown

\* An annotated record without its annotations.
StripAnnotations(p) == [k \in (DOMAIN p) \ AnnotationKeys |-> p[k]]

Orderings(n) ==
    { f \in [1..n -> 1..n] : \A i, j \in 1..n : i # j => f[i] # f[j] }

Scored == op = "score_post"
Filtered == op = "filter_posts"
Narrowed == op = "get_relevant_posts"

---------------------------------------------------------------------------
(* C1: exclusion veto.                                                     *)

\* C1 as stated: a post whose title or summary matches a keyword of an
\* exclusion topic (one topic or several) gets exactly exclude_penalty as
\* its score and an empty matched_topics.
C1_VetoScoreIsExactlyThePenalty ==
    (Scored /\ TitleOrSummaryExcluded(self, arg[1]))
    => /\ ret[1].score = self.scoring.exclude_penalty
       /\ ret[1].matches.matched_topics = <<>>

\* C1 amended: with exclude_penalty <= 0, a post whose title or summary
\* matches a keyword of an exclusion topic gets exclude_penalty once per
\* exclusion topic found in title + ' ' + summary as its score (exactly
\* exclude_penalty when one topic is found), and an empty matched_topics,
\* whatever interest keywords it holds.
C1_VetoScoreIsPenaltyPerTopic ==
    (Scored /\ self.scoring.exclude_penalty <= 0
            /\ TitleOrSummaryExcluded(self, arg[1]))
    => /\ Cardinality(ExcludedBy(self, arg[1])) >= 1
       /\ ret[1].score =
            Cardinality(ExcludedBy(self, arg[1])) * self.scoring.exclude_penalty
       /\ ret[1].matches.matched_topics = <<>>

\* A post found by two exclusion topics that also holds interest keywords,
\* scored under a negative penalty.
C1_Witness ==
    /\ Scored
    /\ self.scoring.exclude_penalty < 0
    /\ TitleOrSummaryExcluded(self, arg[1])
    /\ Cardinality(ExcludedBy(self, arg[1])) = 2
    /\ HasInterestKeyword(self, arg[1])
    /\ ret[1].score = 2 * self.scoring.exclude_penalty

---------------------------------------------------------------------------
(* C2: the early exit.                                                     *)

\* The early exit is taken exactly when an exclusion topic was found, and
\* a post without one carries the result of the interest pass.
EarlyExitIffExcluded ==
    /\ EarlyExit(ret[1]) <=> ExcludedBy(self, arg[1]) # {}
    /\ ExcludedBy(self, arg[1]) = {}
       => /\ ret[1].score = InterestOnly(self, arg[1]).score
          /\ ret[1].matches.matched_topics =
                InterestOnly(self, arg[1]).matches.matched_topics

\* C2 as stated: under every loaded configuration the early exit of
\* score_post is taken if and only if an exclusion topic matched; a post
\* matching none reaches the interest pass and is credited its matches.
C2_EarlyExitIffExcludedAnyConfig == Scored => EarlyExitIffExcluded

\* C2 amended: under every loaded configuration with exclude_penalty < 0
\* the early exit is taken if and only if an exclusion topic matched; a
\* post matching none reaches the interest pass and is credited its matches.
C2_EarlyExitIffExcludedNegativePenalty ==
    (Scored /\ self.scoring.exclude_penalty < 0) => EarlyExitIffExcluded

\* A post no exclusion topic finds, under a configuration that has
\* exclusion topics and a negative penalty, credited an interest match.
C2_Witness ==
    /\ Scored
    /\ self.scoring.exclude_penalty < 0
    /\ self.exclude_topics # <<>>
    /\ ExcludedBy(self, arg[1]) = {}
    /\ ~EarlyExit(ret[1])
    /\ ret[1].matches.matched_topics # <<>>
    /\ ret[1].score > 0

---------------------------------------------------------------------------
(* C3: the order of the output of filter_posts.                            *)

\* ret holds the posts of arg in the order f: ret[i] annotates arg[f[i]].
ArrangedBy(f) ==
    \A i \in 1..Len(ret) : StripAnnotations(ret[i]) = arg[f[i]]

\* C3: the output of filter_posts is the input sorted by relevance_score,
\* descending and stable: the scores along the output never increase, and
\* two posts of equal score keep the order they had in the input.
C3_StableDescendingSort ==
    Filtered =>
      /\ Len(ret) = Len(arg)
      /\ \E f \in Orderings(Len(arg)) :
           /\ ArrangedBy(f)
           /\ \A i, j \in 1..Len(ret) :
                i < j => /\ ret[i].relevance_score >= ret[j].relevance_score
                         /\ ret[i].relevance_score = ret[j].relevance_score
                            => f[i] < f[j]

\* Two different posts of equal score in the input, both in the output.
C3_Witness ==
    /\ Filtered
    /\ Len(arg) = 2
    /\ arg[1] # arg[2]
    /\ ret[1].relevance_score = ret[2].relevance_score
    /\ ret[1].relevance_score > 0
    /\ StripAnnotations(ret[1]) = arg[1]

---------------------------------------------------------------------------
(* C4: the relevance flag.                                                 *)

\* C4: every record in the output of filter_posts has is_relevant true if
\* and only if its relevance_score is at least minimum_score_threshold; a
\* score equal to the threshold is relevant.
C4_RelevantIffAtLeastThreshold ==
    Filtered =>
      \A i \in 1..Len(ret) :
        ret[i].is_relevant <=>
          ret[i].relevance_score >= self.scoring.minimum_score_threshold

\* An output holding a record exactly at the threshold, flagged relevant,
\* and a record below it, flagged not relevant.
C4_Witness ==
    /\ Filtered
    /\ \E i \in 1..Len(ret) :
         /\ ret[i].relevance_score = self.scoring.minimum_score_threshold
         /\ ret[i].is_relevant
    /\ \E i \in 1..Len(ret) :
         /\ ret[i].relevance_score < self.scoring.minimum_score_threshold
         /\ ~ret[i].is_relevant

---------------------------------------------------------------------------
(* C5: filter_posts keeps every post.                                      *)

\* C5: the output of filter_posts has the length of the input and holds one
\* annotated record per input post, with all the fields of that post and
\* relevance_score, relevance_matches and is_relevant besides, also for
\* posts of negative or below-threshold score.
C5_NoPostDroppedOrDuplicated ==
    Filtered =>
      /\ Len(ret) = Len(arg)
      /\ \E f \in Orderings(Len(arg)) :
           \A i \in 1..Len(ret) :
             /\ DOMAIN ret[i] = (DOMAIN arg[f[i]]) \cup AnnotationKeys
             /\ \A k \in DOMAIN arg[f[i]] : ret[i][k] = arg[f[i]][k]

\* An input of two equal posts of negative score, below the threshold:
\* both are in the output.
C5_Witness ==
    /\ Filtered
    /\ Len(arg) = 2
    /\ arg[1] = arg[2]
    /\ Len(ret) = 2
    /\ ret[1].relevance_score < 0
    /\ ~ret[1].is_relevant
    /\ ~ret[2].is_relevant

---------------------------------------------------------------------------
(* C6: get_relevant_posts.                                                 *)

\* short is what is left of long when some of its elements are taken out.
RECURSIVE IsSubsequence(_, _)
IsSubsequence(short, long) ==
    IF short = <<>> THEN TRUE
    ELSE IF long = <<>> THEN FALSE
    ELSE IF Head(short) = Head(long)
         THEN IsSubsequence(Tail(short), Tail(long))
         ELSE IsSubsequence(short, Tail(long))

Count(xs, x) == Cardinality({ i \in 1..Len(xs) : xs[i] = x })

\* C6: get_relevant_posts(posts) is filter_posts(posts) without the records
\* whose is_relevant is false: every relevant record is kept (as often as
\* it occurs), no other record is, and the kept records are in the order
\* they have in the output of filter_posts.
C6_RelevantOnlySameOrder ==
    Narrowed =>
      LET all == FilterPosts(self, arg)
      IN  /\ \A i \in 1..Len(ret) : ret[i].is_relevant
          /\ \A i \in 1..Len(all) :
               all[i].is_relevant => Count(ret, all[i]) = Count(all, all[i])
          /\ \A i \in 1..Len(ret) : Count(all, ret[i]) >= 1
          /\ IsSubsequence(ret, all)

\* Of two posts the first is not relevant and dropped, the second is
\* relevant and kept.
C6_Witness ==
    /\ Narrowed
    /\ Len(arg) = 2
    /\ arg[1] # arg[2]
    /\ Len(ret) = 1
    /\ StripAnnotations(ret[1]) = arg[2]
    /\ ret[1].is_relevant

---------------------------------------------------------------------------
(* C7: excluded posts under a negative penalty and a positive threshold.   *)

Present(post) == \E j \in 1..Len(ret) : StripAnnotations(ret[j]) = post

\* C7: with exclude_penalty < 0 and minimum_score_threshold > 0, a post
\* whose title or summary matches an exclusion topic gets a negative score
\* from score_post and is not in the result of get_relevant_posts, whatever
\* interest keywords it holds; a post in which the exclusion pass finds no
\* topic and whose interest matches reach the threshold is in the result.
C7_ExcludedPostsAreNotRelevant ==
    (self.scoring.exclude_penalty < 0 /\ self.scoring.minimum_score_threshold > 0)
    => /\ (Scored /\ TitleOrSummaryExcluded(self, arg[1])) => ret[1].score < 0
       /\ Narrowed =>
            \A i \in 1..Len(arg) :
              /\ TitleOrSummaryExcluded(self, arg[i]) => ~Present(arg[i])
              /\ ( /\ ExcludedBy(self, arg[i]) = {}
                   /\ InterestOnly(self, arg[i]).score
                        >= self.scoring.minimum_score_threshold )
                 => Present(arg[i])

\* get_relevant_posts on an excluded post that holds an interest keyword
\* and a post that is not excluded and reaches the threshold: the result
\* is the second alone.
C7_Witness ==
    /\ Narrowed
    /\ self.scoring.exclude_penalty < 0
    /\ self.scoring.minimum_score_threshold > 0
    /\ Len(arg) = 2
    /\ TitleOrSummaryExcluded(self, arg[1])
    /\ HasInterestKeyword(self, arg[1])
    /\ ExcludedBy(self, arg[2]) = {}
    /\ Len(ret) = 1
    /\ StripAnnotations(ret[1]) = arg[2]

\* score_post on a post whose exclusion keyword is in the summary and that
\* holds an interest keyword: the score is negative.
C7_WitnessScore ==
    /\ Scored
    /\ self.scoring.exclude_penalty < 0
    /\ self.scoring.minimum_score_threshold > 0
    /\ self.exclude_topics # <<>>
    /\ ~Search(self.exclude_topics[1].pattern, PostTitle(arg[1]))
    /\ Search(self.exclude_topics[1].pattern, PostSummary(arg[1]))
    /\ HasInterestKeyword(self, arg[1])
    /\ ret[1].score < 0

---------------------------------------------------------------------------
(* C9: the input is left as it was.                                        *)

---------------------------------------------------------------------------
(* C10: repeated occurrences of a keyword in one field.                    *)

\* text is one or more occurrences of the keyword kw, blanks between them.
RepeatsOf(text, kw) ==
    /\ Findall(<<kw>>, text) # <<>>
    /\ text = Join(Findall(<<kw>>, text), <<SP>>)

\* Every key point is an occurrence of the keyword kw, and there is one.
KeyPointsRepeat(points, kw) ==
    /\ points # <<>>
    /\ \A i \in 1..Len(points) : Findall(<<kw>>, points[i]) = <<points[i]>>

InterestKeywords(cfg) ==
    UNION { ToSet(cfg.interests[k].keywords) : k \in DOMAIN cfg.interests }

\* C10 as stated: a post in one of whose fields a keyword of an interest
\* topic occurs n >= 1 times scores what the post scores in which it
\* occurs there once.
C10_RepeatsCountOnce ==
    Scored =>
      \A kw \in InterestKeywords(self) :
        /\ \A f \in {"title", "ai_summary", "significance"} \cap DOMAIN arg[1] :
             RepeatsOf(arg[1][f], kw)
             => ret[1].score = ScorePost(self, [arg[1] EXCEPT ![f] = kw]).score
        /\ ("key_points" \in DOMAIN arg[1]
              /\ KeyPointsRepeat(arg[1].key_points, kw))
           => ret[1].score =
                ScorePost(self, [arg[1] EXCEPT !.key_points = <<kw>>]).score

---------------------------------------------------------------------------
(* C8: scoring depends on the post and the configuration alone.            *)

\* The posts the call in progress has scored, each with its score and its
\* matches.
ScoredNow ==
    IF Scored
    THEN { [post |-> arg[1], score |-> ret[1].score, matches |-> ret[1].matches] }
    ELSE { [post    |-> StripAnnotations(ret[i]),
            score   |-> ret[i].relevance_score,
            matches |-> ret[i].relevance_matches] : i \in 1..Len(ret) }

---------------------------------------------------------------------------
(* Scoring under varied weights, multipliers and keyword lists.            *)

\* Words in one document of the scoring runs, over all its text fields.
MaxTerms == 2

KwC == <<"c">>
KwD == <<"d">>

\* Two interest topics of one keyword each, the second of a lower priority.
InterestListsW ==
    { << [topic |-> "robotics", priority |-> "high", keywords |-> <<KwA>>],
         [topic |-> "waymo",    priority |-> p,      keywords |-> <<KwB>>] >> :
      p \in {"medium", "low"} }

\* No exclusion topic, or two of which the first has two keywords and
\* shares one with the second.
ExcludeListsW ==
    { <<>>,
      << [topic |-> "social", keywords |-> <<KwC, KwD>>],
         [topic |-> "crypto", keywords |-> <<KwC>>] >> }

ScoringW(penalty, tmult, smult, high, medium, low) ==
    [exclude_penalty          |-> penalty,
     title_match_multiplier   |-> tmult,
     summary_match_multiplier |-> smult,
     high_priority_weight     |-> high,
     medium_priority_weight   |-> medium,
     low_priority_weight      |-> low,
     minimum_score_threshold  |-> 3]

\* The 'scoring' records: weights in the order of the priorities; weights
\* in the opposite order and the summary above the title; two equal
\* weights, a weight and a multiplier of zero; a penalty of zero; a
\* positive penalty.
ScoringsW ==
    { ScoringW(-5, 2, 1, 3, 2, 1),
      ScoringW(-5, 1, 2, 1, 2, 3),
      ScoringW(-5, 1, 0, 2, 2, 0),
      ScoringW(0, 2, 1, 3, 2, 1),
      ScoringW(5, 2, 1, 3, 2, 1) }

ConfigSetW ==
    { [interests |-> i, exclude_topics |-> e, scoring |-> s] :
        i \in InterestListsW, e \in ExcludeListsW, s \in ScoringsW }

\* The words of the documents: the keywords, one of them in upper case, and
\* a longer word that holds a keyword at its start, inside and at its end.
VocabularyW ==
    {<<"a">>, <<"A">>, <<"b">>, <<"c">>, <<"d">>, <<"c", "a", "b">>}

\* The enriched posts of at most n words in all, the words taken from V.
PostsOver(V, n) ==
    UNION { { MkPost(t, s, k, g) :
                t \in [1..q[1] -> V], s \in [1..q[2] -> V],
                k \in [1..q[3] -> V], g \in [1..q[4] -> V] } :
            q \in Splits(n) }

DocsW == PostsOver(VocabularyW, MaxTerms)

InitW ==
    /\ self \in { Construct(c) : c \in ConfigSetW }
    /\ op = "idle"
    /\ arg = <<>>
    /\ after = <<>>
    /\ ret = <<>>
    /\ earlier = <<>>

NextW ==
    \/ ScorePostCall(DocsW)
    \/ Return

SpecW == InitW /\ [][NextW]_vars

---------------------------------------------------------------------------
(* Vocabulary of the claims about weights and fields.                      *)

\* text.split(' '): the pieces between the blanks.
RECURSIVE Split(_)
Split(text) ==
    IF \A i \in 1..Len(text) : text[i] # SP THEN <<text>>
    ELSE LET i == CHOOSE j \in 1..Len(text) :
                    text[j] = SP /\ \A m \in 1..(j - 1) : text[m] # SP
         IN  <<SubSeq(text, 1, i - 1)>> \o Split(SubSeq(text, i + 1, Len(text)))

\* text with every word spelled from replaced by the word to.
ReplaceWord(text, from, to) ==
    LET ws == Split(text)
    IN  Join([i \in 1..Len(ws) |-> IF ws[i] = from THEN to ELSE ws[i]], <<SP>>)

\* The three fields of the interest pass.
ScoredFields == {"title", "summary", "other"}

FieldText(post, field) ==
    IF field = "title" THEN PostTitle(post)
    ELSE IF field = "summary" THEN PostSummary(post)
    ELSE OtherText(post)

\* The multiplier the configuration gives a field.
FieldMultiplier(cfg, field) ==
    IF field = "title" THEN cfg.scoring.title_match_multiplier
    ELSE IF field = "summary" THEN cfg.scoring.summary_match_multiplier
    ELSE 1

\* The weight the configuration gives a priority of high, medium or low.
ConfiguredWeight(cfg, priority) ==
    IF priority = "high" THEN cfg.scoring.high_priority_weight
    ELSE IF priority = "medium" THEN cfg.scoring.medium_priority_weight
    ELSE cfg.scoring.low_priority_weight

\* post with the word from replaced by the word to in one field.
ReplaceIn(post, field, from, to) ==
    IF field = "title"
    THEN [post EXCEPT !.title = ReplaceWord(@, from, to)]
    ELSE IF field = "summary"
    THEN [post EXCEPT !.ai_summary = ReplaceWord(@, from, to)]
    ELSE [post EXCEPT
            !.key_points = [i \in DOMAIN @ |-> ReplaceWord(@[i], from, to)],
            !.significance = ReplaceWord(@, from, to)]

\* The interest topics (by position) of priority high, and of a lower one.
HighTopics(cfg) ==
    { k \in DOMAIN cfg.interests : cfg.interests[k].priority = "high" }

LowerTopics(cfg) ==
    { k \in DOMAIN cfg.interests :
        cfg.interests[k].priority \in {"medium", "low"} }

\* The post arg[1] holds the keyword kh of the topic h, spelled so, in the
\* field f and nowhere else, holds no keyword of the topic l, and no
\* exclusion topic is found in it; other is the same post with kl, a
\* keyword of the topic l, in the place of kh, and no exclusion topic is
\* found in it either.
PriorityPair(f, h, l, kh, kl, other) ==
    /\ ToSet(Findall(<<kh>>, FieldText(arg[1], f))) = {kh}
    /\ other = ReplaceIn(arg[1], f, kh, kl)
    /\ TopicMatches(self.interests[l], arg[1]) = <<>>
    /\ TopicMatches(self.interests[h], other) = <<>>
    /\ ExcludedBy(self, arg[1]) = {}
    /\ ExcludedBy(self, other) = {}

---------------------------------------------------------------------------
(* C11: priority ordering.                                                 *)

\* C11 as stated: of two posts in which no exclusion topic is found and
\* that are the same except that one holds a keyword of a high-priority
\* topic where the other holds a keyword of a medium- or low-priority topic
\* (as often, in the same field), the first has the strictly greater score.
C11_HighPriorityScoresHigher ==
    Scored =>
      \A f \in ScoredFields, h \in HighTopics(self), l \in LowerTopics(self) :
        \A kh \in ToSet(self.interests[h].keywords),
           kl \in ToSet(self.interests[l].keywords) :
          LET other == ReplaceIn(arg[1], f, kh, kl)
          IN  PriorityPair(f, h, l, kh, kl, other)
              => ret[1].score > ScorePost(self, other).score

\* C11 amended: under a configuration with exclude_penalty < 0, with
\* high_priority_weight above the weight of the lower priority and a
\* positive multiplier of the field, of two such posts the one holding the
\* keyword of the high-priority topic has the strictly greater score.
C11_HighPriorityScoresHigherGivenWeights ==
    (Scored /\ self.scoring.exclude_penalty < 0) =>
      \A f \in ScoredFields, h \in HighTopics(self), l \in LowerTopics(self) :
        \A kh \in ToSet(self.interests[h].keywords),
           kl \in ToSet(self.interests[l].keywords) :
          LET other == ReplaceIn(arg[1], f, kh, kl)
          IN  ( /\ PriorityPair(f, h, l, kh, kl, other)
                /\ self.scoring.high_priority_weight
                     > ConfiguredWeight(self, self.interests[l].priority)
                /\ FieldMultiplier(self, f) > 0 )
              => ret[1].score > ScorePost(self, other).score

\* A post with the high-priority keyword twice in its summary and nowhere
\* else, scored under exclusion topics, a negative penalty and ordered
\* weights: it scores above the post with the lower-priority keyword there.
C11_Witness ==
    /\ Scored
    /\ self.scoring.exclude_penalty < 0
    /\ self.exclude_topics # <<>>
    /\ self.scoring.high_priority_weight > self.scoring.medium_priority_weight
    /\ self.scoring.medium_priority_weight > self.scoring.low_priority_weight
    /\ self.scoring.summary_match_multiplier > 0
    /\ \E h \in HighTopics(self), l \in LowerTopics(self) :
         LET kh == self.interests[h].keywords[1]
             kl == self.interests[l].keywords[1]
             other == ReplaceIn(arg[1], "summary", kh, kl)
         IN  /\ PriorityPair("summary", h, l, kh, kl, other)
             /\ Len(Findall(<<kh>>, PostSummary(arg[1]))) = 2
             /\ ret[1].score > ScorePost(self, other).score
             /\ ScorePost(self, other).score > 0

---------------------------------------------------------------------------
(* C12: field weighting.                                                   *)

\* post with the words spelled kw taken out of the title and put behind
\* the summary.
MoveToSummary(post, kw) ==
    LET IsKw(w)  == w = kw
        NotKw(w) == w # kw
        ws       == Split(PostTitle(post))
        moved    == Join(SelectSeq(ws, IsKw), <<SP>>)
    IN  [post EXCEPT
           !.title = Join(SelectSeq(ws, NotKw), <<SP>>),
           !.ai_summary = IF @ = <<>> THEN moved ELSE @ \o <<SP>> \o moved]

\* The post arg[1] holds the keyword kw, spelled so, in its title and
\* nowhere else.
OnlyInTitle(kw) ==
    /\ ToSet(Findall(<<kw>>, PostTitle(arg[1]))) = {kw}
    /\ Findall(<<kw>>, PostSummary(arg[1])) = <<>>
    /\ Findall(<<kw>>, OtherText(arg[1])) = <<>>

\* C12 as stated: given title_match_multiplier > summary_match_multiplier, a
\* post with an interest keyword only in the title scores strictly higher
\* than the same post with that keyword only in the summary.
C12_TitleScoresHigher ==
    (Scored /\ self.scoring.title_match_multiplier
                 > self.scoring.summary_match_multiplier) =>
      \A k \in DOMAIN self.interests :
        \A kw \in ToSet(self.interests[k].keywords) :
          OnlyInTitle(kw)
          => ret[1].score > ScorePost(self, MoveToSummary(arg[1], kw)).score

\* C12 amended: given title_match_multiplier > summary_match_multiplier,
\* exclude_penalty < 0 and a positive priority weight of the keyword's
\* topic, a post with an interest keyword only in the title scores strictly
\* higher than the same post with that keyword only in the summary, when
\* the exclusion pass finds no exclusion topic in either.
C12_TitleScoresHigherWhenScored ==
    (Scored /\ self.scoring.title_match_multiplier
                 > self.scoring.summary_match_multiplier
            /\ self.scoring.exclude_penalty < 0) =>
      \A k \in DOMAIN self.interests :
        \A kw \in ToSet(self.interests[k].keywords) :
          LET other == MoveToSummary(arg[1], kw)
          IN  ( /\ OnlyInTitle(kw)
                /\ ConfiguredWeight(self, self.interests[k].priority) > 0
                /\ ExcludedBy(self, arg[1]) = {}
                /\ ExcludedBy(self, other) = {} )
              => ret[1].score > ScorePost(self, other).score

\* A post with an interest keyword in its title and another word in its
\* summary, under exclusion topics that are not found in it: the post with
\* the keyword moved to the summary scores less, and more than nothing.
C12_Witness ==
    /\ Scored
    /\ self.scoring.title_match_multiplier
         > self.scoring.summary_match_multiplier
    /\ self.scoring.exclude_penalty < 0
    /\ self.exclude_topics # <<>>
    /\ ExcludedBy(self, arg[1]) = {}
    /\ PostSummary(arg[1]) # <<>>
    /\ \E k \in DOMAIN self.interests :
         LET kw == self.interests[k].keywords[1]
             other == MoveToSummary(arg[1], kw)
         IN  /\ OnlyInTitle(kw)
             /\ Findall(<<kw>>, PostSummary(other)) = <<kw>>
             /\ PostTitle(other) = <<>>
             /\ ret[1].score > ScorePost(self, other).score
             /\ ScorePost(self, other).score > 0

---------------------------------------------------------------------------
(* C13: keywords match whole words, in either case.                        *)

LowerText(text) == [i \in 1..Len(text) |-> Lower(text[i])]

\* The words of a text: what stands between its blanks.
WordsOf(text) == ToSet(Split(text)) \ {<<>>}

\* The words of the title and of the summary.
TitleAndSummaryWords(post) ==
    WordsOf(PostTitle(post)) \cup WordsOf(PostSummary(post))

\* The words of all four text fields.
AllWords(post) ==
    TitleAndSummaryWords(post)
    \cup UNION { WordsOf(Get(post, "key_points", <<>>)[i]) :
                   i \in DOMAIN Get(post, "key_points", <<>>) }
    \cup WordsOf(PostSignificance(post))

\* The words among ws that are a keyword of the topic, in either case.
KeywordWords(topic, ws) ==
    { w \in ws : \E i \in DOMAIN topic.keywords :
                   LowerText(w) = LowerText(topic.keywords[i]) }

\* The topics of the configuration have keywords of one word each.
SingleWordKeywords(cfg) ==
    \A topics \in {cfg.interests, cfg.exclude_topics} :
      \A k \in DOMAIN topics : \A i \in DOMAIN topics[k].keywords :
        WordsOf(topics[k].keywords[i]) = {topics[k].keywords[i]}

---------------------------------------------------------------------------
(* Loading a configuration, and calls that may raise.                      *)

\* The configuration file as json.load returns it.  A well-formed one:
BaseConfig ==
    [interests      |-> << [topic |-> "robotics", priority |-> "high",
                            keywords |-> <<KwA>>],
                           [topic |-> "waymo", priority |-> "medium",
                            keywords |-> <<KwB>>] >>,
     exclude_topics |-> << [topic |-> "social", keywords |-> <<KwC>>] >>,
     scoring        |-> ScoringOf(-5, 3)]

\* A record without some of its keys.
Without(r, keys) == [k \in (DOMAIN r) \ keys |-> r[k]]

\* The configurations loaded: the well-formed one; without exclude_topics;
\* with an interest topic, or an exclusion topic, of no keyword; with a
\* priority that is none of high, medium, low (also beside a topic of low
\* priority whose weight is not 1); with a scoring record that
\* lacks one constant; without 'scoring'; without 'interests'; with a topic
\* that has no 'keywords'.
LoadConfigs ==
    { BaseConfig,
      Without(BaseConfig, {"exclude_topics"}),
      [BaseConfig EXCEPT !.interests[2].keywords = <<>>],
      [BaseConfig EXCEPT !.exclude_topics[1].keywords = <<>>],
      [BaseConfig EXCEPT !.interests[2].priority = "urgent"],
      [BaseConfig EXCEPT !.interests[1].priority = "low",
                         !.interests[2].priority = "urgent",
                         !.scoring.low_priority_weight = 4] }
    \cup { [BaseConfig EXCEPT !.scoring = Without(@, {c})] :
             c \in {"exclude_penalty", "minimum_score_threshold",
                    "title_match_multiplier", "low_priority_weight"} }
    \cup { Without(BaseConfig, {"scoring"}),
           Without(BaseConfig, {"interests"}),
           [BaseConfig EXCEPT !.interests[1] = Without(@, {"keywords"})] }

\* __init__ raises KeyError: config['interests'] or config['scoring'] is
\* not there, or a topic has no 'keywords' for _compile_patterns.  Nothing
\* else is looked at.
LoadRaises(config) ==
    \/ "interests" \notin DOMAIN config
    \/ "scoring" \notin DOMAIN config
    \/ \E k \in DOMAIN config.interests :
         "keywords" \notin DOMAIN config.interests[k]
    \/ \E k \in DOMAIN Get(config, "exclude_topics", <<>>) :
         "keywords" \notin DOMAIN config.exclude_topics[k]

KeyError == [raised |-> "KeyError"]

WeightKeys ==
    {"high_priority_weight", "medium_priority_weight", "low_priority_weight"}

\* score_post raises KeyError on a constant the scoring record lacks:
\* exclude_penalty is read in every call (line 66); when the interest pass
\* runs, a topic found in a field reads the three weights
\* (_get_priority_weight builds the whole mapping) and the multiplier of
\* that field.
ScorePostRaises(cfg, post) ==
    LET has(c) == c \in DOMAIN cfg.scoring
    IN  \/ ~has("exclude_penalty")
        \/ /\ ExclusionPass(cfg, post, 1,
                  [score |-> 0, matches |-> EmptyMatches]).score
                > cfg.scoring.exclude_penalty
           /\ \E k \in DOMAIN cfg.interests :
                LET found(text) == Findall(cfg.interests[k].pattern, text) # <<>>
                IN  \/ /\ found(PostTitle(post))
                       /\ \/ ~(WeightKeys \subseteq DOMAIN cfg.scoring)
                          \/ ~has("title_match_multiplier")
                    \/ /\ found(PostSummary(post))
                       /\ \/ ~(WeightKeys \subseteq DOMAIN cfg.scoring)
                          \/ ~has("summary_match_multiplier")
                    \/ /\ found(OtherText(post))
                       /\ ~(WeightKeys \subseteq DOMAIN cfg.scoring)

\* filter_posts raises KeyError: score_post does on one of the posts, or
\* minimum_score_threshold is not there when a post is annotated.
FilterPostsRaises(cfg, posts) ==
    \/ \E i \in DOMAIN posts : ScorePostRaises(cfg, posts[i])
    \/ posts # <<>> /\ "minimum_score_threshold" \notin DOMAIN cfg.scoring

\* What a call of score_post ends with: the exception or the result.
ScorePostOutcome(cfg, post) ==
    IF ScorePostRaises(cfg, post) THEN KeyError ELSE ScorePost(cfg, post)

\* What a call of filter_posts ends with: the exception or the list.
FilterPostsOutcome(cfg, posts) ==
    IF FilterPostsRaises(cfg, posts) THEN <<KeyError>>
    ELSE FilterPosts(cfg, posts)

\* The text fields score_post reads.
FieldKeys == {"title", "ai_summary", "key_points", "significance"}

VocabularyL == {<<"a">>, <<"b">>, <<"c">>}

\* Posts that lack some of the four text fields.
PartialPosts(V, n) ==
    { Without(d, K) : d \in PostsOver(V, n), K \in SUBSET FieldKeys }

\* The posts score_post is called on after loading: enriched posts, posts
\* lacking fields and raw posts of the scraper.
DocsL ==
    PostsOver(VocabularyL, MaxTerms)
    \cup PartialPosts(VocabularyL, 1)
    \cup { RawPost(t) : t \in [1..1 -> VocabularyL] }

\* The posts of the input lists of filter_posts after loading.
ListDocsL ==
    { Without(d, K) : d \in PostsOver({<<"a">>, <<"c">>}, 1),
                      K \in {{}, {"title"}, FieldKeys} }
    \cup { RawPost(<< <<"a">> >>) }

PostListsL == UNION { [1..n -> ListDocsL] : n \in 0..MaxPosts }

\* Before construction: no object, the parsed configuration in arg.
InitLoad ==
    /\ self = <<>>
    /\ op = "start"
    /\ arg \in { <<c>> : c \in LoadConfigs }
    /\ after = <<>>
    /\ ret = <<>>
    /\ earlier = <<>>

\* InterestFilter(config_file): the object, or the exception.
InitCall ==
    /\ op = "start"
    /\ IF LoadRaises(arg[1])
       THEN /\ op' = "failed"
            /\ ret' = <<KeyError>>
            /\ UNCHANGED <<self, arg>>
       ELSE /\ op' = "idle"
            /\ self' = Construct(arg[1])
            /\ arg' = <<>>
            /\ ret' = <<>>
    /\ UNCHANGED <<after, earlier>>

ScorePostTry(S) ==
    /\ op = "idle"
    /\ \E post \in S :
         /\ arg' = <<post>>
         /\ after' = <<InputAfterScore(self, post)>>
         /\ ret' = <<ScorePostOutcome(self, post)>>
    /\ op' = "score_post"
    /\ UNCHANGED <<self, earlier>>

FilterPostsTry(L) ==
    /\ op = "idle"
    /\ \E posts \in L :
         /\ arg' = posts
         /\ after' = InputAfterFilter(self, posts)
         /\ ret' = FilterPostsOutcome(self, posts)
    /\ op' = "filter_posts"
    /\ UNCHANGED <<self, earlier>>

\* The call is over, with its result or its exception.
ReturnOrRaise ==
    /\ op \in {"score_post", "filter_posts"}
    /\ op' = "idle"
    /\ arg' = <<>>
    /\ after' = <<>>
    /\ ret' = <<>>
    /\ UNCHANGED <<self, earlier>>

NextLoad ==
    \/ InitCall
    \/ ScorePostTry(DocsL)
    \/ FilterPostsTry(PostListsL)
    \/ ReturnOrRaise

SpecLoad == InitLoad /\ [][NextLoad]_vars

---------------------------------------------------------------------------
(* Vocabulary of the claims about loading and exceptions.                  *)

Loaded == self # <<>>

LoadFailed == op = "failed"

\* The call in progress ended with an exception.
Raised == ret # <<>> /\ "raised" \in DOMAIN ret[1]

\* Some topic of the object has an empty keyword list.
HasEmptyKeywordList(cfg) ==
    \E topics \in {cfg.interests, cfg.exclude_topics} :
      \E k \in DOMAIN topics : topics[k].keywords = <<>>

KnownPriorities == {"high", "medium", "low"}

\* The interest topics (by position) of a priority outside high, medium, low.
UnknownPriorityTopics(cfg) ==
    { k \in DOMAIN cfg.interests :
        cfg.interests[k].priority \notin KnownPriorities }

ScoringKeys ==
    {"exclude_penalty", "title_match_multiplier", "summary_match_multiplier",
     "high_priority_weight", "medium_priority_weight", "low_priority_weight",
     "minimum_score_threshold"}

ScoringComplete(cfg) == ScoringKeys \subseteq DOMAIN cfg.scoring

\* The number of distinct matches of a topic's pattern in a text.
DistinctMatches(interest, text) ==
    Cardinality(ToSet(Findall(interest.pattern, text)))

---------------------------------------------------------------------------
(* C14: an empty keyword list.                                             *)

\* C14 as stated: a configuration in which a topic has an empty keyword
\* list is rejected when it is loaded: no InterestFilter exists with such a
\* topic, and none scores a post.
C14_EmptyKeywordListRejected == Loaded => ~HasEmptyKeywordList(self)

---------------------------------------------------------------------------
(* C15: a priority outside high, medium, low.                              *)

\* C15 as stated: a configuration in which an interest topic has a priority
\* outside {high, medium, low} is rejected when it is loaded: no
\* InterestFilter exists with such a topic, and no post is scored against it.
C15_UnknownPriorityRejected == Loaded => UnknownPriorityTopics(self) = {}

\* C15 amended: a configuration in which an interest topic has a priority
\* outside {high, medium, low} is loaded like any other (loading fails only
\* on a missing 'interests', 'scoring' or 'keywords'), and a post scored
\* against such a topic gets the topic's matches with the weight 1.
C15_UnknownPriorityWeighsOne ==
    /\ LoadFailed =>
         \/ ~({"interests", "scoring"} \subseteq DOMAIN arg[1])
         \/ \E k \in DOMAIN arg[1].interests :
              "keywords" \notin DOMAIN arg[1].interests[k]
    /\ (Scored /\ ~Raised /\ ~EarlyExit(ret[1])) =>
         \A k \in UnknownPriorityTopics(self) :
           LET interest == self.interests[k]
               expected ==
                   DistinctMatches(interest, PostTitle(arg[1]))
                     * self.scoring.title_match_multiplier
                 + DistinctMatches(interest, PostSummary(arg[1]))
                     * self.scoring.summary_match_multiplier
                 + DistinctMatches(interest, OtherText(arg[1]))
           IN  TopicMatches(interest, arg[1]) # <<>>
               => \E i \in DOMAIN ret[1].matches.matched_topics :
                    /\ ret[1].matches.matched_topics[i].topic = interest.topic
                    /\ ret[1].matches.matched_topics[i].score = expected

\* A post with a keyword of a topic of unknown priority in its title and in
\* its significance, scored: the topic is credited 2 + 1 at the weight 1.
C15_Witness ==
    /\ Scored
    /\ ~Raised
    /\ \E k \in UnknownPriorityTopics(self) :
         /\ Findall(self.interests[k].pattern, PostTitle(arg[1])) # <<>>
         /\ Findall(self.interests[k].pattern, OtherText(arg[1])) # <<>>
         /\ ret[1].score = self.scoring.title_match_multiplier + 1
         /\ ret[1].score = 3

---------------------------------------------------------------------------
(* C16: only loading can fail.                                             *)

\* C16 as stated: once an InterestFilter has been constructed, score_post
\* and filter_posts never raise, whatever the post; a scoring record that
\* lacks a constant is rejected when the configuration is loaded.
C16_OnlyLoadingFails ==
    /\ op \in {"score_post", "filter_posts"} => ~Raised
    /\ Loaded => ScoringComplete(self)

---------------------------------------------------------------------------
(* C17: posts that lack fields.                                            *)

\* post with every text field it lacks set to the empty value.
Filled(post) ==
    post @@ [title |-> <<>>, ai_summary |-> <<>>, key_points |-> <<>>,
             significance |-> <<>>]

LacksField(post) == ~(FieldKeys \subseteq DOMAIN post)

\* C17: under a configuration with a complete scoring record, a post that
\* lacks any of title, ai_summary, key_points, significance does not make
\* score_post or filter_posts raise, and its score is the score of the same
\* post with the absent fields set to the empty string / the empty list.
C17_AbsentFieldsScoreAsEmpty ==
    (Loaded /\ ScoringComplete(self)) =>
      /\ (Scored /\ LacksField(arg[1])) =>
           /\ ~Raised
           /\ ret[1].score = ScorePost(self, Filled(arg[1])).score
      /\ (Filtered /\ \E i \in DOMAIN arg : LacksField(arg[i])) =>
           /\ ~Raised
           /\ Len(ret) = Len(arg)
           /\ \A i \in DOMAIN ret :
                ret[i].relevance_score =
                  ScorePost(self, Filled(StripAnnotations(ret[i]))).score

\* filter_posts on a raw post of the scraper, whose keyword is in its title
\* and in its 'summary', and a post without any text field: the raw post is
\* credited its title alone, the other scores 0.
C17_Witness ==
    /\ Filtered
    /\ ScoringComplete(self)
    /\ ~HasEmptyKeywordList(self)
    /\ ~Raised
    /\ Len(arg) = 2
    /\ DOMAIN arg[1] \cap FieldKeys = {}
    /\ "summary" \in DOMAIN arg[2]
    /\ "ai_summary" \notin DOMAIN arg[2]
    /\ StripAnnotations(ret[1]) = arg[2]
    /\ ret[1].relevance_score =
         self.scoring.high_priority_weight * self.scoring.title_match_multiplier
    /\ ret[2].relevance_score = 0

---------------------------------------------------------------------------
(* TechCrunchScraper.fetch_recent_posts (src/src/scrapers/web_scraper.py). *)
(* In the runs of the scraper the variables hold:                          *)
(*   self    the TechCrunchScraper object                                  *)
(*   op      "idle", "scraping" (fetch_recent_posts is in its page loop),  *)
(*           "fetch_recent_posts" (it has returned)                        *)
(*   arg     <<max_pages>>                                                 *)
(*   after   <<posts>>: the posts of the page fetched last                 *)
(*   ret     while scraping, the locals of fetch_recent_posts; after it,   *)
(*           the list returned                                             *)
(* Times are whole numbers; the cutoff (now - hours) is CutoffTime.        *)

\* Pages fetch_recent_posts may be told to scrape.
MaxPages == 2

\* Articles on one page of the site.
MaxArticles == 2

CutoffTime == 1

\* No <time> element and no date in the URL.
NoDate == -1

Links == {"L1", "L2", "L3"}

\* The articles a page may show: link, title text and date found (or not).
Articles ==
    { [link |-> l, title |-> "T", date |-> d] : l \in Links, d \in 0..2 }
    \cup { [link |-> "L1", title |-> "", date |-> 1],
           [link |-> "L1", title |-> "T", date |-> NoDate] }

\* What the site shows on one page when it is fetched.
PageContents == UNION { [1..n -> Articles] : n \in 0..MaxArticles }

\* pub_date.strftime('%Y-%m-%d %H:%M UTC')
Strftime(d) == IF d = 0 THEN "D0" ELSE IF d = 1 THEN "D1" ELSE "D2"

\* fetch_posts_from_page, the loop over the articles of a page from
\* article k on: an article whose link was seen on this page is skipped;
\* the link is noted; an article without title or without date is skipped;
\* the others become posts.
RECURSIVE PagePosts(_, _, _, _)
PagePosts(articles, k, seen, posts) ==
    IF k > Len(articles) THEN posts
    ELSE LET a == articles[k]
         IN  IF a.link \in seen
             THEN PagePosts(articles, k + 1, seen, posts)
             ELSE IF a.title = "" \/ a.date = NoDate
             THEN PagePosts(articles, k + 1, seen \cup {a.link}, posts)
             ELSE PagePosts(articles, k + 1, seen \cup {a.link},
                    Append(posts,
                           [title |-> a.title, link |-> a.link,
                            published |-> Strftime(a.date),
                            published_datetime |-> a.date]))

FetchPostsFromPage(articles) == PagePosts(articles, 1, {}, <<>>)

\* The loop over the posts of a page without the test on seen_urls.
RECURSIVE CollectPostsUnchecked(_, _, _)
CollectPostsUnchecked(posts, k, loc) ==
    IF k > Len(posts) THEN loc
    ELSE LET post == posts[k]
         IN  IF post.published_datetime >= CutoffTime
             THEN CollectPostsUnchecked(posts, k + 1,
                    [loc EXCEPT !.all_posts = Append(@, post),
                                !.seen_urls = @ \cup {post.link},
                                !.new_posts_on_page = @ + 1])
             ELSE CollectPostsUnchecked(posts, k + 1,
                    [loc EXCEPT !.page_has_old_posts = TRUE])

\* fetch_recent_posts, the loop over the posts of a page from post k on: a
\* post whose link is in seen_urls is skipped; a post not older than the
\* cutoff is appended to all_posts and its link noted; an older one marks
\* the page.
RECURSIVE CollectPosts(_, _, _)
CollectPosts(posts, k, loc) ==
    IF k > Len(posts) THEN loc
    ELSE LET post == posts[k]
         IN  IF post.link \in loc.seen_urls
             THEN CollectPosts(posts, k + 1, loc)
             ELSE IF post.published_datetime >= CutoffTime
             THEN CollectPosts(posts, k + 1,
                    [loc EXCEPT !.all_posts = Append(@, post),
                                !.seen_urls = @ \cup {post.link},
                                !.new_posts_on_page = @ + 1])
             ELSE CollectPosts(posts, k + 1,
                    [loc EXCEPT !.page_has_old_posts = TRUE])

\* all_posts.sort(key=published_datetime, reverse=True), stable.
RECURSIVE InsertByDate(_, _)
InsertByDate(sorted, p) ==
    IF sorted = <<>> THEN <<p>>
    ELSE IF Head(sorted).published_datetime >= p.published_datetime
         THEN <<Head(sorted)>> \o InsertByDate(Tail(sorted), p)
         ELSE <<p>> \o sorted

RECURSIVE SortByDate(_, _)
SortByDate(todo, sorted) ==
    IF todo = <<>> THEN sorted
    ELSE SortByDate(Tail(todo), InsertByDate(sorted, Head(todo)))

\* The end of fetch_recent_posts: the posts sorted, newest first, each
\* without its published_datetime.
SortedForReturn(all_posts) ==
    LET sorted == SortByDate(all_posts, <<>>)
    IN  [i \in 1..Len(sorted) |-> Without(sorted[i], {"published_datetime"})]

InitScraper ==
    /\ self = [base_url |-> "https://techcrunch.com"]
    /\ op = "idle"
    /\ arg = <<>>
    /\ after = <<>>
    /\ ret = <<>>
    /\ earlier = <<>>

\* fetch_recent_posts(hours, max_pages) is called.
FetchRecentPostsCall ==
    /\ op = "idle"
    /\ \E max_pages \in 1..MaxPages : arg' = <<max_pages>>
    /\ op' = "scraping"
    /\ after' = <<>>
    /\ ret' = [all_posts |-> <<>>, seen_urls |-> {}, page |-> 1,
               stopped |-> FALSE, new_posts_on_page |-> 0,
               page_has_old_posts |-> FALSE]
    /\ UNCHANGED <<self, earlier>>

\* One turn of the loop over the pages: the page is fetched; without posts
\* the loop ends; otherwise its posts are collected, and the loop ends when
\* all of them are older than the cutoff.
ScrapePage ==
    /\ op = "scraping"
    /\ ~ret.stopped
    /\ ret.page <= arg[1]
    /\ \E articles \in PageContents :
         LET posts == FetchPostsFromPage(articles)
             loc   == CollectPosts(posts, 1,
                        [ret EXCEPT !.new_posts_on_page = 0,
                                    !.page_has_old_posts = FALSE])
         IN  /\ after' = <<posts>>
             /\ ret' =
                  IF posts = <<>> THEN [ret EXCEPT !.stopped = TRUE]
                  ELSE IF /\ loc.page_has_old_posts
                          /\ \A i \in 1..Len(posts) :
                               posts[i].published_datetime < CutoffTime
                       THEN [loc EXCEPT !.stopped = TRUE]
                       ELSE [loc EXCEPT !.page = @ + 1]
    /\ UNCHANGED <<self, op, arg, earlier>>

\* The loop is over: fetch_recent_posts sorts and returns.
FetchRecentPostsReturn ==
    /\ op = "scraping"
    /\ ret.stopped \/ ret.page > arg[1]
    /\ op' = "fetch_recent_posts"
    /\ ret' = SortedForReturn(ret.all_posts)
    /\ UNCHANGED <<self, arg, after, earlier>>

\* The caller has taken the list.
ScraperIdle ==
    /\ op = "fetch_recent_posts"
    /\ op' = "idle"
    /\ arg' = <<>>
    /\ after' = <<>>
    /\ ret' = <<>>
    /\ UNCHANGED <<self, earlier>>

NextScraper ==
    \/ FetchRecentPostsCall
    \/ ScrapePage
    \/ FetchRecentPostsReturn
    \/ ScraperIdle

SpecScraper == InitScraper /\ [][NextScraper]_vars

---------------------------------------------------------------------------
(* C18: the posts returned have distinct links.                            *)

DistinctLinks(posts) ==
    \A i, j \in 1..Len(posts) : i # j => posts[i].link # posts[j].link

\* C18: fetch_recent_posts returns posts with pairwise distinct links, and
\* all_posts holds distinct links, those of seen_urls, after every page: a
\* post whose link was collected before is not added again.
C18_ReturnedLinksDistinct ==
    /\ op = "fetch_recent_posts" => DistinctLinks(ret)
    /\ op = "scraping" =>
         /\ DistinctLinks(ret.all_posts)
         /\ ret.seen_urls =
              { ret.all_posts[i].link : i \in 1..Len(ret.all_posts) }

\* The second page has been scraped: it showed two posts not older than
\* the cutoff, one with a link collected from the first page, which was
\* skipped, and one new, which was added.
C18_Witness ==
    /\ op = "scraping"
    /\ ret.page = 3
    /\ Len(after[1]) = 2
    /\ \A i \in 1..2 : after[1][i].published_datetime >= CutoffTime
    /\ ret.new_posts_on_page = 1
    /\ Len(ret.all_posts) = 2
    /\ after[1][1].link = ret.all_posts[1].link
    /\ after[1][2].link = ret.all_posts[2].link


---------------------------------------------------------------------------
(* C19: the score of a topic from its keyword counts.                      *)

\* The number of keywords of a topic that occur in a text, each keyword
\* counted once however it is spelled there.
KeywordCount(interest, text) ==
    Cardinality({ i \in DOMAIN interest.keywords :
                    Search(<<interest.keywords[i]>>, text) })

\* w * (n_title * title_match_multiplier
\*        + n_summary * summary_match_multiplier + n_other)
KeywordCountScore(cfg, interest, post) ==
    ConfiguredWeight(cfg, interest.priority)
      * ( KeywordCount(interest, PostTitle(post))
            * cfg.scoring.title_match_multiplier
        + KeywordCount(interest, PostSummary(post))
            * cfg.scoring.summary_match_multiplier
        + KeywordCount(interest, OtherText(post)) )

RECURSIVE SumKeywordCountScores(_, _, _)
SumKeywordCountScores(cfg, post, k) ==
    IF k > Len(cfg.interests) THEN 0
    ELSE KeywordCountScore(cfg, cfg.interests[k], post)
           + SumKeywordCountScores(cfg, post, k + 1)

\* C19 as stated: for a post no exclusion topic matches, the score of every
\* topic recorded in matched_topics is the topic's weight times (keywords
\* in the title * title_match_multiplier + keywords in the summary *
\* summary_match_multiplier + keywords in key_points and significance), a
\* keyword counting once in every field it is in, and the score returned
\* is the sum of that over all interest topics.
C19_ScoreFromKeywordCounts ==
    (Scored /\ ~TitleOrSummaryExcluded(self, arg[1])) =>
      /\ \A i \in DOMAIN ret[1].matches.matched_topics :
           \E k \in DOMAIN self.interests :
             /\ self.interests[k].topic = ret[1].matches.matched_topics[i].topic
             /\ ret[1].matches.matched_topics[i].score
                  = KeywordCountScore(self, self.interests[k], arg[1])
      /\ ret[1].score = SumKeywordCountScores(self, arg[1], 1)


---------------------------------------------------------------------------
(* C20: the exclusion pass.                                                *)

\* A keyword of the exclusion topic is found in title + ' ' + summary.
ExcludeTopicMatches(exclude, post) ==
    \E i \in DOMAIN exclude.keywords :
        Search(<<exclude.keywords[i]>>, ExclusionText(post))

\* The names of the exclusion topics that match, in configuration order.
MatchingExcludeTopics(cfg, post) ==
    LET Hit(exclude) == ExcludeTopicMatches(exclude, post)
        hits == SelectSeq(cfg.exclude_topics, Hit)
    IN  [i \in DOMAIN hits |-> hits[i].topic]

\* What the interest pass added to the score: the scores of matched_topics.
RECURSIVE SumTopicScores(_)
SumTopicScores(topics) ==
    IF topics = <<>> THEN 0
    ELSE Head(topics).score + SumTopicScores(Tail(topics))

\* The score as the exclusion pass left it.
ScoreAfterExclusionPass(result) ==
    result.score - SumTopicScores(result.matches.matched_topics)

\* C20: every exclusion topic that matches adds exclude_penalty once,
\* however many of its keywords are found and however often, and is listed
\* once in exclude_matches: the score the exclusion pass leaves is the
\* number of matching exclusion topics times exclude_penalty, and
\* exclude_matches is the matching topics in configuration order.
C20_PenaltyOncePerExcludedTopic ==
    Scored =>
      /\ ret[1].matches.exclude_matches = MatchingExcludeTopics(self, arg[1])
      /\ ScoreAfterExclusionPass(ret[1])
           = Len(MatchingExcludeTopics(self, arg[1]))
               * self.scoring.exclude_penalty

\* A post whose title holds both keywords of the first exclusion topic, one
\* of them a keyword of the second topic too, has been scored with a penalty
\* other than zero: both topics are listed once.
C20_Witness ==
    /\ Scored
    /\ self.scoring.exclude_penalty # 0
    /\ Len(self.exclude_topics) = 2
    /\ Len(self.exclude_topics[1].keywords) = 2
    /\ \A i \in DOMAIN self.exclude_topics[1].keywords :
         Search(<<self.exclude_topics[1].keywords[i]>>, PostTitle(arg[1]))
    /\ ExcludeTopicMatches(self.exclude_topics[2], arg[1])
    /\ ret[1].matches.exclude_matches
         = <<self.exclude_topics[1].topic, self.exclude_topics[2].topic>>
    /\ ret[1].score = 2 * self.scoring.exclude_penalty


---------------------------------------------------------------------------
(* C21: the fields the exclusion pass reads.                               *)

ExcludeKeywords(cfg) ==
    UNION { ToSet(cfg.exclude_topics[k].keywords) :
              k \in DOMAIN cfg.exclude_topics }

\* A keyword of an exclusion topic is in the key points or in the
\* significance, none is in title + ' ' + ai_summary.
ExcludedOnlyElsewhere(cfg, post) ==
    /\ \E kw \in ExcludeKeywords(cfg) :
         \/ Search(<<kw>>, PostKeyPoints(post))
         \/ Search(<<kw>>, PostSignificance(post))
    /\ \A kw \in ExcludeKeywords(cfg) :
         ~Search(<<kw>>, PostTitle(post) \o <<SP>> \o PostSummary(post))

\* No exclusion is recorded, no penalty is in the result, and the result is
\* what the interest pass gives the post.
ScoredByInterestPassAlone ==
    /\ ret[1].matches.exclude_matches = <<>>
    /\ ~EarlyExit(ret[1])
    /\ ret[1] = InterestOnly(self, arg[1])

\* C21 as stated: a post whose exclusion keywords are only in key_points or
\* in significance triggers no exclusion, gets no penalty, has an empty
\* exclude_matches and is scored by the interest pass.
C21_ExclusionIgnoresOtherFields ==
    (Scored /\ ExcludedOnlyElsewhere(self, arg[1]))
      => ScoredByInterestPassAlone

\* C21 for a negative exclude_penalty: the same, under a configuration
\* whose exclude_penalty is below zero.
C21_ExclusionIgnoresOtherFieldsNegativePenalty ==
    (Scored /\ self.scoring.exclude_penalty < 0
            /\ ExcludedOnlyElsewhere(self, arg[1]))
      => ScoredByInterestPassAlone

\* A post with an exclusion keyword in its significance and an interest
\* keyword in its title has been scored under a negative penalty: it has a
\* positive score and a matched topic.
C21_Witness ==
    /\ Scored
    /\ self.scoring.exclude_penalty < 0
    /\ ExcludedOnlyElsewhere(self, arg[1])
    /\ \E kw \in ExcludeKeywords(self) : Search(<<kw>>, PostSignificance(arg[1]))
    /\ \E kw \in InterestKeywords(self) : Search(<<kw>>, PostTitle(arg[1]))
    /\ ret[1].score > 0
    /\ ret[1].matches.matched_topics # <<>>
    /\ ret[1].matches.exclude_matches = <<>>


---------------------------------------------------------------------------
(* C22: the topics recorded in the result.                                 *)

\* The strings a topic's keywords match in the three fields of a post.
MatchedStrings(interest, post) ==
    UNION { ToSet(Findall(interest.keywords, FieldText(post, f))) :
              f \in ScoredFields }

\* A keyword of the topic is found in one of the three fields.
TopicFound(interest, post) ==
    \E f \in ScoredFields, i \in DOMAIN interest.keywords :
        Search(<<interest.keywords[i]>>, FieldText(post, f))

\* The entries of matched_topics that carry the name of a topic.
EntriesOf(result, topic) ==
    { i \in DOMAIN result.matches.matched_topics :
        result.matches.matched_topics[i].topic = topic }

InterestTopicKeys(result) ==
    DOMAIN result.matches.score_breakdown \ {"exclusion_penalty"}

\* C22 as stated: an interest topic has an entry in matched_topics and a
\* key in score_breakdown exactly when its topic_score is above zero, and
\* no entry of matched_topics or of score_breakdown for an interest topic
\* carries a score of zero or less.
C22_RecordedIffPositiveScore ==
    Scored =>
      /\ \A i \in DOMAIN ret[1].matches.matched_topics :
           ret[1].matches.matched_topics[i].score > 0
      /\ \A t \in InterestTopicKeys(ret[1]) :
           ret[1].matches.score_breakdown[t] > 0
      /\ ~EarlyExit(ret[1]) =>
           \A k \in DOMAIN self.interests :
             (TopicScore(self, self.interests[k], arg[1]) > 0)
               <=> /\ EntriesOf(ret[1], self.interests[k].topic) # {}
                   /\ self.interests[k].topic \in InterestTopicKeys(ret[1])

\* C22 by matches: in a result that did not return early, an interest
\* topic has an entry in matched_topics, its matched strings in
\* matched_keywords and a key in score_breakdown exactly when one of its
\* keywords is found in the title, the summary or the key points and
\* significance; entry and key carry the same score, which is above zero
\* when the topic's weight and the two multipliers are.  A result that
\* returned early records no interest topic.
C22_RecordedIffMatched ==
    Scored =>
      IF EarlyExit(ret[1])
      THEN /\ ret[1].matches.matched_topics = <<>>
           /\ InterestTopicKeys(ret[1]) = {}
      ELSE \A k \in DOMAIN self.interests :
             LET interest == self.interests[k]
                 entries  == EntriesOf(ret[1], interest.topic)
             IN  IF TopicFound(interest, arg[1])
                 THEN /\ Cardinality(entries) = 1
                      /\ interest.topic \in InterestTopicKeys(ret[1])
                      /\ MatchedStrings(interest, arg[1])
                           \subseteq ToSet(ret[1].matches.matched_keywords)
                      /\ \A i \in entries :
                           /\ ret[1].matches.matched_topics[i].score
                                = ret[1].matches.score_breakdown[interest.topic]
                           /\ ( /\ ConfiguredWeight(self, interest.priority) > 0
                                /\ self.scoring.title_match_multiplier > 0
                                /\ self.scoring.summary_match_multiplier > 0 )
                              => ret[1].matches.matched_topics[i].score > 0
                 ELSE /\ entries = {}
                      /\ interest.topic \notin InterestTopicKeys(ret[1])

\* A topic whose keyword is found has been recorded with a score of zero:
\* its weight, or the multiplier of the field, is zero.
C22_Witness ==
    /\ Scored
    /\ \E k \in DOMAIN self.interests :
         /\ TopicFound(self.interests[k], arg[1])
         /\ \E i \in EntriesOf(ret[1], self.interests[k].topic) :
              ret[1].matches.matched_topics[i].score = 0
         /\ self.interests[k].topic \in InterestTopicKeys(ret[1])
         /\ ret[1].matches.score_breakdown[self.interests[k].topic] = 0


---------------------------------------------------------------------------
(* C23: the weight of a priority.                                          *)

\* The weight of a priority: the configured weight of high, medium or low,
\* and 1 for any other value.
StatedWeight(cfg, priority) ==
    IF priority \in KnownPriorities THEN ConfiguredWeight(cfg, priority) ELSE 1

\* The topics (by position) whose name and priority an entry carries.
TopicsOfEntry(cfg, entry) ==
    { k \in DOMAIN cfg.interests :
        /\ cfg.interests[k].topic = entry.topic
        /\ cfg.interests[k].priority = entry.priority }

\* C23: with the three weights configured, scoring never fails on a
\* priority, and every topic recorded scores its distinct matches in the
\* title * title_match_multiplier, in the summary *
\* summary_match_multiplier and in the other fields, all times the weight of
\* its priority: high_priority_weight, medium_priority_weight or
\* low_priority_weight for high, medium or low, and 1 for any other value.
C23_WeightOfPriority ==
    (Scored /\ ScoringComplete(self)) =>
      /\ ~Raised
      /\ \A i \in DOMAIN ret[1].matches.matched_topics :
           LET entry == ret[1].matches.matched_topics[i]
           IN  \E k \in TopicsOfEntry(self, entry) :
                 entry.score
                   = StatedWeight(self, entry.priority)
                       * ( DistinctMatches(self.interests[k], PostTitle(arg[1]))
                             * self.scoring.title_match_multiplier
                         + DistinctMatches(self.interests[k], PostSummary(arg[1]))
                             * self.scoring.summary_match_multiplier
                         + DistinctMatches(self.interests[k], OtherText(arg[1])) )

\* A post has been scored whose title holds a keyword of a topic of
\* priority low and a keyword of a topic of an unknown priority, the weight
\* of low being other than 1: the two entries carry the title multiplier
\* times the weight of low, and times 1.
C23_Witness ==
    /\ Scored
    /\ ~Raised
    /\ ScoringComplete(self)
    /\ self.scoring.low_priority_weight # 1
    /\ Len(ret[1].matches.matched_topics) = 2
    /\ ret[1].matches.matched_topics[1].priority = "low"
    /\ ret[1].matches.matched_topics[2].priority \notin KnownPriorities
    /\ DistinctMatches(self.interests[1], PostTitle(arg[1])) = 1
    /\ DistinctMatches(self.interests[2], PostTitle(arg[1])) = 1
    /\ ret[1].matches.matched_topics[1].score
         = self.scoring.low_priority_weight * self.scoring.title_match_multiplier
    /\ ret[1].matches.matched_topics[2].score
         = self.scoring.title_match_multiplier
    /\ ret[1].score = 10


---------------------------------------------------------------------------
(* Scoring under configurations whose topics share text or names: a        *)
(* keyword in two interest topics, a keyword that begins another keyword   *)
(* of its topic (in both orders of the list), an exclusion keyword of two  *)
(* words, two interest topics of one name, and two exclusion topics with a *)
(* common keyword under a penalty above zero.                              *)

KwAB == <<"a", SP, "b">>

InterestListsK ==
    { << [topic |-> "robotics", priority |-> "high",   keywords |-> <<KwA>>],
         [topic |-> "waymo",    priority |-> "medium", keywords |-> <<KwB, KwA>>] >>,
      << [topic |-> "robotics", priority |-> "high",   keywords |-> <<KwA, KwAB>>] >>,
      << [topic |-> "robotics", priority |-> "high",   keywords |-> <<KwAB, KwA>>] >>,
      << [topic |-> "robotics", priority |-> "high",   keywords |-> <<KwA>>],
         [topic |-> "robotics", priority |-> "medium", keywords |-> <<KwB>>] >> }

ConfigSetK ==
    { [interests |-> i, exclude_topics |-> <<>>, scoring |-> ScoringOf(-5, 3)] :
        i \in InterestListsK }
    \cup
    { [interests      |-> << [topic |-> "robotics", priority |-> "high",
                              keywords |-> <<KwB>>] >>,
       exclude_topics |-> << [topic |-> "crypto", keywords |-> <<KwAB>>] >>,
       scoring        |-> ScoringOf(-5, 3)],
      [interests      |-> << [topic |-> "robotics", priority |-> "high",
                              keywords |-> <<KwB>>] >>,
       exclude_topics |-> << [topic |-> "social", keywords |-> <<KwA>>],
                             [topic |-> "crypto", keywords |-> <<KwA>>] >>,
       scoring        |-> ScoringOf(5, 3)] }

\* The posts: their terms are the keywords, the one of two words too.
DocsK == PostsOver({KwA, KwB, KwAB}, MaxTerms)

InitK ==
    /\ self \in { Construct(c) : c \in ConfigSetK }
    /\ op = "idle"
    /\ arg = <<>>
    /\ after = <<>>
    /\ ret = <<>>
    /\ earlier = <<>>

NextK ==
    \/ ScorePostCall(DocsK)
    \/ Return

SpecK == InitK /\ [][NextK]_vars

---------------------------------------------------------------------------
(* C24: matched_keywords.                                                  *)

\* C24 as stated: matched_keywords of a result of score_post holds no
\* string twice, also when a keyword belongs to two interest topics or is
\* matched in several fields.
C24_MatchedKeywordsDistinct ==
    Scored =>
      \A i, j \in DOMAIN ret[1].matches.matched_keywords :
        i # j => ret[1].matches.matched_keywords[i]
                   # ret[1].matches.matched_keywords[j]


---------------------------------------------------------------------------
(* C25: the score and score_breakdown.                                     *)

\* The sum of the values of a mapping.
RECURSIVE SumValues(_)
SumValues(f) ==
    IF DOMAIN f = {} THEN 0
    ELSE LET key == CHOOSE x \in DOMAIN f : TRUE
         IN  f[key] + SumValues([x \in (DOMAIN f) \ {key} |-> f[x]])

ScoreIsSumOfBreakdown ==
    ret[1].score = SumValues(ret[1].matches.score_breakdown)

\* No two interest topics of the configuration have the same name.
DistinctTopicNames(cfg) ==
    \A i, j \in DOMAIN cfg.interests :
        i # j => cfg.interests[i].topic # cfg.interests[j].topic

\* C25 as stated: for every post and every configuration the score
\* score_post returns is the sum of the values of score_breakdown.
C25_ScoreIsSumOfBreakdown == Scored => ScoreIsSumOfBreakdown

\* C25 for a penalty of zero or less and distinct topic names: under a
\* configuration whose exclude_penalty is <= 0 and whose interest topics
\* have names different from each other, the score score_post returns is
\* the sum of the values of score_breakdown.
C25_ScoreIsSumOfBreakdownUnlessOffset ==
    (Scored /\ self.scoring.exclude_penalty <= 0 /\ DistinctTopicNames(self))
      => ScoreIsSumOfBreakdown

\* A post an exclusion topic is found in has been scored under a negative
\* penalty: the score is the penalty, recorded under exclusion_penalty.
C25_Witness ==
    /\ Scored
    /\ self.scoring.exclude_penalty < 0
    /\ DistinctTopicNames(self)
    /\ ret[1].matches.exclude_matches # <<>>
    /\ DOMAIN ret[1].matches.score_breakdown = {"exclusion_penalty"}
    /\ ret[1].score = self.scoring.exclude_penalty
    /\ ret[1].matches.score_breakdown["exclusion_penalty"] = ret[1].score


---------------------------------------------------------------------------
(* C26: the relevant posts come first.                                     *)

\* C26: in the output of filter_posts no record with is_relevant false
\* stands before a record with is_relevant true, so that the first k
\* records never leave out a relevant post while holding one that is not.
C26_RelevantPostsFormPrefix ==
    Filtered =>
      \A i, j \in 1..Len(ret) :
        (i < j /\ ret[j].is_relevant) => ret[i].is_relevant

\* The input held a post that is not relevant before one that is: the
\* output holds the relevant one first.
C26_Witness ==
    /\ Filtered
    /\ Len(arg) = 2
    /\ Len(ret) = 2
    /\ arg[1] # arg[2]
    /\ StripAnnotations(ret[1]) = arg[2]
    /\ StripAnnotations(ret[2]) = arg[1]
    /\ ret[1].is_relevant
    /\ ~ret[2].is_relevant


---------------------------------------------------------------------------
(* C27: spellings of a keyword that differ in letter case.                 *)

\* text is two or more occurrences of the keyword kw, blanks between them,
\* not all spelled alike.
CaseVariantsOf(text, kw) ==
    /\ RepeatsOf(text, kw)
    /\ Cardinality(ToSet(Findall(<<kw>>, text))) > 1

\* C27 as stated: a post one of whose fields holds occurrences of one
\* keyword that differ only in letter case scores what the post scores
\* that holds a single occurrence of the keyword in that field.
C27_CaseVariantsCountOnce ==
    Scored =>
      \A kw \in InterestKeywords(self) :
        \A f \in {"title", "ai_summary", "significance"} \cap DOMAIN arg[1] :
          CaseVariantsOf(arg[1][f], kw)
            => ret[1].score
                 = ScorePost(self, [arg[1] EXCEPT
                                      ![f] = Head(Findall(<<kw>>, arg[1][f]))]).score


---------------------------------------------------------------------------
(* C28: keywords of one topic that overlap in the text.                    *)

Reverse(xs) == [i \in 1..Len(xs) |-> xs[Len(xs) + 1 - i]]

\* The filter with the keywords of every interest topic in reverse order.
KeywordsReversed(cfg) ==
    [cfg EXCEPT !.interests =
        [k \in DOMAIN @ |-> [@[k] EXCEPT !.keywords = Reverse(@),
                                         !.pattern  = Reverse(@)]]]

\* The score is the one the keyword counts give: per topic and field the
\* number of the topic's keywords that occur in the field as whole words.
ScoreCountsEveryKeyword ==
    ret[1].score = SumKeywordCountScores(self, arg[1], 1)

\* The score is the one the filter gives with its keyword lists reversed.
ScoreIgnoresKeywordOrder ==
    ret[1].score = ScorePost(KeywordsReversed(self), arg[1]).score

\* C28 as stated: without exclusion topics and with every word spelled in
\* lower case, the count behind the score is, for each interest topic and
\* field, the number of the topic's keywords that occur in the field as
\* whole words, also when one keyword begins another or two keywords
\* overlap in the text, and the order of the keywords in the configuration
\* makes no difference.
C28_OverlappingKeywordsAllCount ==
    (Scored /\ self.exclude_topics = <<>>)
      => /\ ScoreCountsEveryKeyword
         /\ ScoreIgnoresKeywordOrder


---------------------------------------------------------------------------
(* C29: an exclusion keyword across the end of the title.                  *)

\* C29 as stated: an exclusion topic is recorded, and its penalty applied,
\* only when one of its keywords lies within the title or within the
\* summary; a keyword of several words that begins at the end of the title
\* and ends in the summary triggers nothing.
C29_ExclusionKeywordWithinOneField ==
    Scored =>
      /\ \A i \in DOMAIN ret[1].matches.exclude_matches :
           \E k \in DOMAIN self.exclude_topics :
             /\ self.exclude_topics[k].topic = ret[1].matches.exclude_matches[i]
             /\ \E n \in DOMAIN self.exclude_topics[k].keywords :
                  \/ Search(<<self.exclude_topics[k].keywords[n]>>,
                            PostTitle(arg[1]))
                  \/ Search(<<self.exclude_topics[k].keywords[n]>>,
                            PostSummary(arg[1]))
      /\ ~TitleOrSummaryExcluded(self, arg[1])
           => ScoreAfterExclusionPass(ret[1]) = 0


---------------------------------------------------------------------------
(* C30: a topic without keywords.                                          *)

\* C30 as stated: a topic whose keyword list is empty matches no post: an
\* exclusion topic without keywords is never in exclude_matches and adds no
\* penalty, an interest topic without keywords has no entry in
\* matched_topics and none in score_breakdown, and adds nothing to the
\* score.
C30_EmptyKeywordListNeverMatches ==
    (Scored /\ ~Raised) =>
      /\ \A k \in DOMAIN self.exclude_topics :
           self.exclude_topics[k].keywords = <<>>
             => /\ \A i \in DOMAIN ret[1].matches.exclude_matches :
                     ret[1].matches.exclude_matches[i]
                       # self.exclude_topics[k].topic
                /\ ~TitleOrSummaryExcluded(self, arg[1])
                     => ScoreAfterExclusionPass(ret[1]) = 0
      /\ \A k \in DOMAIN self.interests :
           self.interests[k].keywords = <<>>
             => /\ EntriesOf(ret[1], self.interests[k].topic) = {}
                /\ self.interests[k].topic \notin InterestTopicKeys(ret[1])

===========================================================================
